---- MODULE Spec2Model ----
(***************************************************************************)
(* Glow Up API (src/main.py): a FastAPI service over one SQLite database   *)
(* (tables posts, ratings, reactions) and one directory of image files.    *)
(*                                                                         *)
(* Every action is one statement of a handler that reads or writes the     *)
(* database or the upload directory, together with the local computation   *)
(* up to the next such statement.  A request is held by an executor: the   *)
(* event loop runs create_post (async def, no await: creates never         *)
(* overlap each other), the threads of the pool run the def handlers.      *)
(* Every request opens its own connection.  The first INSERT or DELETE of  *)
(* a connection opens a transaction and takes the database write lock,     *)
(* conn.commit() publishes the change and releases the lock; a connection  *)
(* that finds the lock taken waits (busy timeout, 5 s) and then fails with *)
(* sqlite3.OperationalError.  SELECTs run outside any transaction and see  *)
(* the committed tables.  No handler closes its connection when a          *)
(* statement raises: a connection whose INSERT was refused by a constraint *)
(* stays in its transaction and keeps the write lock until the collector   *)
(* finalizes the Connection object, at a time the program does not choose. *)
(*                                                                         *)
(* Spec      requests served one after the other: one executor.            *)
(* ConcSpec  requests that overlap: the event loop and two pool threads.   *)
(*                                                                         *)
(* Representation                                                          *)
(*   Optional[str]   a sequence of length <= 1: <<>> is None / SQL NULL,   *)
(*                   <<s>> is the string s.                                *)
(*   posts           the set of rows [id, image_url, share_token,          *)
(*                   pin_hash]; username, caption, category and created_at *)
(*                   are stored and echoed but never decide anything.      *)
(*   ratings,        the multiset of rows (post_id, score) / (post_id,     *)
(*   reactions       emoji): the AUTOINCREMENT id, rater_name and          *)
(*                   created_at columns are never read by any statement.   *)
(*   files           the names present in UPLOAD_DIR; a name               *)
(*                   f"{post_id}.{ext}" is the pair <<post_id, ext>>.      *)
(*   image.filename  the list of its "."-separated parts.                  *)
(*   avg_rating      in tenths (80 is 8.0), or <<>> for null.              *)
(***************************************************************************)
EXTENDS Integers, Sequences, FiniteSets, Bags, TLC

VARIABLES
    posts,      \* table posts
    ratings,    \* table ratings
    reactions,  \* table reactions
    files,      \* names in UPLOAD_DIR
    uuids,      \* how many post ids uuid4() has handed out (they never repeat)
    reqs,       \* executor -> the request it is handling, or its last response
    lock,       \* who holds the write lock: the executor whose connection does,
                \* Unclosed for the connection of an answered request, or None
    deleted,    \* history: [id, share_token] of every post deleted with success
    accepted    \* history: the ratings and reactions committed for a request

vars == <<posts, ratings, reactions, files, uuids, reqs, lock, deleted, accepted>>

\* ---- bounds of the exploration ------------------------------------------
\* The size of the explored store: a drawn post id counts 3, a rating row or a
\* reaction row 1.  Requests that would grow the store beyond the bound are
\* left unexplored; requests that write nothing are always explored.
MaxSize == 7
\* the same bound for the requests that overlap
MaxConcSize == 6

\* ---- inputs ---------------------------------------------------------------
None == <<>>
Some(x) == <<x>>

\* values str(uuid4())[:8] can take
ShareTokens == {"tokA", "tokB"}
\* the n-th value of str(uuid4()) used as a post id
Uuid(n) == "id" \o ToString(n)
PostIds == {Uuid(n) : n \in 1..(MaxSize \div 3)}
\* path tokens of requests
Tokens == PostIds \cup ShareTokens \cup {"nope"}
PinStrings == {"", "1234", "0000"}
Pins == {None} \cup {Some(s) : s \in PinStrings}
\* the PIN field of the upload form
FormPins == {None, Some(""), Some("1234")}
Scores == {0, 1, 2, 10, 11}
Emojis == {"fire", "love"}
ContentTypes == {"image/png", "text/plain"}
ImageNames == {<<"photo">>, <<"photo", "png">>}

\* the inputs of the requests that overlap
ConcShareTokens == {"tokA"}
ConcTokens == {Uuid(1), "tokA", "nope"}
ConcPins == {None}
ConcFormPins == {None, Some(""), Some("1234")}
ConcScores == {2, 11}
ConcEmojis == {"fire"}
ConcContentTypes == {"image/png"}
ConcImageNames == {<<"photo", "png">>}

\* one executor for the requests served one after the other
OneAtATime == {"w1"}
\* the event loop and the threads of the pool
Executors == {"loop", "w1", "w2"}

Overlap == Cardinality(DOMAIN reqs) > 1
Limit == IF Overlap THEN MaxConcSize ELSE MaxSize
InShareTokens == IF Overlap THEN ConcShareTokens ELSE ShareTokens
InTokens == IF Overlap THEN ConcTokens ELSE Tokens
InPins == IF Overlap THEN ConcPins ELSE Pins
InFormPins == IF Overlap THEN ConcFormPins ELSE FormPins
InScores == IF Overlap THEN ConcScores ELSE Scores
InEmojis == IF Overlap THEN ConcEmojis ELSE Emojis
InContentTypes == IF Overlap THEN ConcContentTypes ELSE ContentTypes
InImageNames == IF Overlap THEN ConcImageNames ELSE ImageNames

\* holder of the write lock: the connection an answered request left open
\* inside its transaction (no conn.close() on the path of an exception)
Unclosed == "unclosed"

\* create_post runs on the event loop, every other handler on a pool thread
CanRun(w, op) == Overlap => (w = "loop" <=> op = "create")

\* ---- helpers ---------------------------------------------------------------
\* hashlib.sha256(pin.encode()).hexdigest()
hash_pin(pin) ==
    CASE pin = ""     -> "e3b0c44298fc1c149afbf4c8996fb92427ae41e4649b934ca495991b7852b855"
      [] pin = "1234" -> "03ac674216f3e15c761ee1a5e255f067953623c8b388b4459e13f978d7c846f4"
      [] pin = "0000" -> "9af15b336e6a9619928537df30b2e6a2376569fcf9d7e773eccede65606529a0"

\* Python truthiness of an Optional[str]: None and "" are falsy
Truthy(opt) == opt # None /\ opt[1] # ""

\* image.content_type.startswith("image/")
IsImage(content_type) == content_type \in {"image/png"}

\* image.filename.rsplit(".", 1)[-1] if "." in image.filename else "jpg"
Ext(filename) == IF Len(filename) > 1 THEN filename[Len(filename)] ELSE "jpg"

\* PRAGMA foreign_keys: get_db never sets it, and SQLite's default is OFF, so
\* the ON DELETE CASCADE clauses of the schema are parsed but not enforced.
ForeignKeysOn == FALSE

\* (variant: the WHERE clause written "share_token=? OR id!=?")
SelectPost_Loose(P, token) == {p \in P : p.share_token = token \/ p.id # token}

\* SELECT ... FROM posts WHERE share_token=? OR id=?
SelectPost(P, token) == {p \in P : p.share_token = token \/ p.id = token}

\* .fetchone() of that SELECT
FetchOne(rows) == IF rows = {} THEN None ELSE Some(CHOOSE p \in rows : TRUE)

\* rows of a table belonging to one post
RowsOf(T, post_id) == {r \in BagToSet(T) : r.post_id = post_id}

\* the table without the rows of one post
WithoutPost(T, post_id) ==
    LET keep == {r \in BagToSet(T) : r.post_id # post_id}
    IN  [r \in keep |-> T[r]]

\* COUNT(*) over the given distinct rows of a table
RECURSIVE CountRows(_, _)
CountRows(T, rows) ==
    IF rows = {} THEN 0
    ELSE LET r == CHOOSE x \in rows : TRUE
         IN  T[r] + CountRows(T, rows \ {r})

\* SUM(score) over the given distinct rows of the ratings table
RECURSIVE SumScores(_, _)
SumScores(T, rows) ==
    IF rows = {} THEN 0
    ELSE LET r == CHOOSE x \in rows : TRUE
         IN  T[r] * r.score + SumScores(T, rows \ {r})

\* 2^k mod 5
RECURSIVE Pow2Mod5(_)
Pow2Mod5(k) == IF k = 0 THEN 1 ELSE (2 * Pow2Mod5(k - 1)) % 5

\* the binary exponent of m/20, for m/20 >= 1: the e with 2^e <= m/20 < 2^(e+1)
RECURSIVE Exponent(_, _)
Exponent(m, e) == IF m < 40 * (2 ^ e) THEN e ELSE Exponent(m, e + 1)

\* (variant: the average cut to one decimal instead of rounded)
RoundTenths_Floor(num, den) == (10 * num) \div den

\* Python round(x, 1) in tenths, x the double nearest to num/den (SQLite's AVG:
\* the sum, exact, divided by the count), for num/den >= 1.  round() is exact
\* on the double: a mean that is no decimal tie is farther from every tie than
\* the double is from the mean, and goes to the nearest tenth.  A decimal tie
\* is m/20 with m odd.  It is a double when 5 divides m (a multiple of 1/4),
\* and goes to the even tenth.  Otherwise the double is the mean rounded to 53
\* bits: m * 2^(52-e) / 20 = m * 2^(50-e) / 5 rounded to an integer, below the
\* mean when the remainder by 5 is 1 or 2 and above it when it is 3 or 4.
RoundTenths(num, den) ==
    LET q == (10 * num) \div den
        r == (10 * num) % den
        m == 2 * q + 1
        f == ((m % 5) * Pow2Mod5(50 - Exponent(m, 0))) % 5
    IN  IF 2 * r < den THEN q
        ELSE IF 2 * r > den THEN q + 1
        ELSE IF m % 5 = 0 THEN (IF q % 2 = 0 THEN q ELSE q + 1)
        ELSE IF f \in {1, 2} THEN q ELSE q + 1

\* SELECT AVG(score) as avg, COUNT(*) as total FROM ratings WHERE post_id=?
\* (avg as the pair <<sum, count>>, NULL over no rows)
SelectRatingStats(R, post_id) ==
    LET mine == RowsOf(R, post_id)
        total == CountRows(R, mine)
    IN  [avg |-> IF total = 0 THEN None ELSE Some(<<SumScores(R, mine), total>>),
         total |-> total]

\* SELECT emoji, COUNT(*) as count FROM reactions WHERE post_id=? GROUP BY emoji
SelectReactionCounts(E, post_id) ==
    LET emojis == {r.emoji : r \in RowsOf(E, post_id)}
    IN  [e \in emojis |-> E[[post_id |-> post_id, emoji |-> e]]]

\* the dictionary post_stats returns from the results of its two SELECTs;
\* "if stats['avg']" is false for NULL and for 0.0
StatsOf(stats, counts) ==
    [avg_rating |-> IF stats.avg # None /\ stats.avg[1][1] # 0
                    THEN Some(RoundTenths(stats.avg[1][1], stats.avg[1][2])) ELSE None,
     total_ratings |-> stats.total,
     reactions |-> counts]

\* post_stats(post_id, conn), R and E the tables at the time of each SELECT
post_stats(post_id, R, E) ==
    StatsOf(SelectRatingStats(R, post_id), SelectReactionCounts(E, post_id))

\* serialize_post(row, base_url), given what its post_stats returned
serialize_post(row, stats) ==
    [id |-> row.id, image_url |-> row.image_url, share_token |-> row.share_token,
     stats |-> stats]

\* (variant: the upper limit of the score forgotten)
ValidScore_NoUpper(score) == 1 <= score

\* "if not 1 <= score <= 10"
ValidScore(score) == 1 <= score /\ score <= 10

\* CHECK(score BETWEEN 1 AND 10) of the ratings table
ScoreCheck(score) == score \in 1..10

\* PRIMARY KEY of posts.id, UNIQUE of posts.share_token
PostsConstraints(P, row) == \A p \in P : p.id # row.id /\ p.share_token # row.share_token

\* (variant: the PIN stored as it came)
StoredPinHash_Plain(pin) == IF Truthy(pin) THEN Some(pin[1]) ELSE None

\* pin_hash = hash_pin(pin) if pin else None
StoredPinHash(pin) == IF Truthy(pin) THEN Some(hash_pin(pin[1])) ELSE None

\* INSERT INTO ratings (post_id, rater_name, score, created_at) VALUES (?,?,?,?)
InsertRating(R, post_id, score) == R (+) SetToBag({[post_id |-> post_id, score |-> score]})

\* INSERT INTO reactions (post_id, emoji, created_at) VALUES (?,?,?)
InsertReaction(E, post_id, emoji) == E (+) SetToBag({[post_id |-> post_id, emoji |-> emoji]})

\* os.remove(img_path) of a file that is there
RemoveFile(F, name) == F \ {name}

\* (variant: the DELETE matches no row)
DeleteFromPosts_Keep(P, post_id) == P

\* DELETE FROM posts WHERE id=?, with what it does to the two child tables
DeleteFromPosts(P, post_id) == {p \in P : p.id # post_id}
DeleteRatings(R, post_id) == IF ForeignKeysOn THEN WithoutPost(R, post_id) ELSE R
DeleteReactions(E, post_id) == IF ForeignKeysOn THEN WithoutPost(E, post_id) ELSE E

\* the PIN check of delete_post: TRUE when the request may delete the post
PinAccepted(post, pin) ==
    IF Truthy(post.pin_hash)
    THEN ~(~Truthy(pin) \/ hash_pin(pin[1]) # post.pin_hash[1])
    ELSE TRUE

\* ---- requests ---------------------------------------------------------------
\* an executor handling a request: pc the statement it runs next, post the row
\* its SELECT or its form gave, seen the result of the first SELECT of post_stats
Request(pc, op, token, arg, post, seen) ==
    [pc |-> pc, op |-> op, token |-> token, arg |-> arg, post |-> post, seen |-> seen,
     status |-> 0, body |-> None]

\* an executor that has answered its request and may take the next: the
\* response is named by the handler and the path token of the request
\* (create_post: the post id it drew)
Done(op, token, status, body) ==
    [pc |-> "done", op |-> op, token |-> token, arg |-> None, post |-> None, seen |-> None,
     status |-> status, body |-> body]
Free(w) == reqs[w].pc = "done"

\* the executor sends the response of its request
Respond(w, status, body) ==
    reqs' = [reqs EXCEPT ![w] = Done(reqs[w].op, reqs[w].token, status, body)]

Size == 3 * uuids + BagCardinality(ratings) + BagCardinality(reactions)

\* rows the requests in flight may still insert
Reserved ==
    Cardinality({w \in DOMAIN reqs : /\ reqs[w].op \in {"rate", "react"}
                                     /\ reqs[w].pc \in {"select", "execute", "commit"}})

\* ---- state after import: init_db() on an empty database ------------------
Start(executors) ==
    /\ posts = {}
    /\ ratings = EmptyBag
    /\ reactions = EmptyBag
    /\ files = {}
    /\ uuids = 0
    /\ reqs = [w \in executors |-> Done("root", "", 200, None)]
    /\ lock = None
    /\ deleted = {}
    /\ accepted = [ratings |-> EmptyBag, reactions |-> EmptyBag]

Init == Start(OneAtATime)
ConcInit == Start(Executors)

\* ---- POST /fits: create_post up to the file it writes ---------------------
\* the content-type check, the two uuid4() draws, the file written under
\* UPLOAD_DIR, and the row made ready for the INSERT
create_post(w, pin, content_type, filename, share_token) ==
    /\ Free(w) /\ CanRun(w, "create")
    /\ IF ~IsImage(content_type)
       THEN /\ reqs' = [reqs EXCEPT ![w] = Done("create", "", 400, None)]
            /\ UNCHANGED <<files, uuids>>
       ELSE /\ Size + Reserved + 3 <= Limit
            /\ LET post_id == Uuid(uuids + 1)
                   name == <<post_id, Ext(filename)>>
                   row == [id |-> post_id, image_url |-> name,
                           share_token |-> share_token, pin_hash |-> StoredPinHash(pin)]
               IN  /\ uuids' = uuids + 1
                   /\ files' = files \cup {name}
                   /\ reqs' = [reqs EXCEPT ![w] =
                                  Request("execute", "create", post_id, None, Some(row), None)]
    /\ UNCHANGED <<posts, ratings, reactions, lock, deleted, accepted>>

\* ---- GET /fits/{token}: get_post up to its SELECT ---------------------------
get_post(w, token) ==
    /\ Free(w) /\ CanRun(w, "get")
    /\ reqs' = [reqs EXCEPT ![w] = Request("select", "get", token, None, None, None)]
    /\ UNCHANGED <<posts, ratings, reactions, files, uuids, lock, deleted, accepted>>

\* ---- POST /fits/{token}/rate: rate_post up to its SELECT --------------------
rate_post(w, token, score) ==
    /\ Free(w) /\ CanRun(w, "rate")
    /\ IF ~ValidScore(score)
       THEN reqs' = [reqs EXCEPT ![w] = Done("rate", token, 400, None)]
       ELSE /\ Size + Reserved + 1 <= Limit
            /\ reqs' = [reqs EXCEPT ![w] =
                           Request("select", "rate", token, Some(score), None, None)]
    /\ UNCHANGED <<posts, ratings, reactions, files, uuids, lock, deleted, accepted>>

\* ---- POST /fits/{token}/react: react_post up to its SELECT ------------------
react_post(w, token, emoji) ==
    /\ Free(w) /\ CanRun(w, "react")
    /\ Size + Reserved + 1 <= Limit
    /\ reqs' = [reqs EXCEPT ![w] = Request("select", "react", token, Some(emoji), None, None)]
    /\ UNCHANGED <<posts, ratings, reactions, files, uuids, lock, deleted, accepted>>

\* ---- DELETE /fits/{token}: delete_post up to its SELECT ---------------------
delete_post(w, token, pin) ==
    /\ Free(w) /\ CanRun(w, "delete")
    /\ reqs' = [reqs EXCEPT ![w] = Request("select", "delete", token, pin, None, None)]
    /\ UNCHANGED <<posts, ratings, reactions, files, uuids, lock, deleted, accepted>>

\* SELECT ... FROM posts WHERE share_token=? OR id=?, and the checks on its row
select_post(w) ==
    LET r == reqs[w]
        post == FetchOne(SelectPost(posts, r.token))
    IN  /\ r.pc = "select"
        /\ IF post = None
           THEN Respond(w, 404, None)
           ELSE IF r.op = "delete" /\ ~PinAccepted(post[1], r.arg)
           THEN Respond(w, 403, None)
           ELSE /\ reqs' = [reqs EXCEPT ![w].post = post,
                                        ![w].pc = CASE r.op = "get" -> "ratings"
                                                    [] r.op = "delete" -> "exists"
                                                    [] OTHER -> "execute"]
        /\ UNCHANGED <<posts, ratings, reactions, files, uuids, lock, deleted, accepted>>

\* if os.path.exists(img_path):
path_exists(w) ==
    LET r == reqs[w]
    IN  /\ r.pc = "exists"
        /\ reqs' = [reqs EXCEPT ![w].pc = IF r.post[1].image_url \in files
                                          THEN "remove" ELSE "execute"]
        /\ UNCHANGED <<posts, ratings, reactions, files, uuids, lock, deleted, accepted>>

\* os.remove(img_path): FileNotFoundError, unhandled, when the file is gone
remove_image(w) ==
    LET r == reqs[w]
    IN  /\ r.pc = "remove"
        /\ IF r.post[1].image_url \in files
           THEN /\ files' = RemoveFile(files, r.post[1].image_url)
                /\ reqs' = [reqs EXCEPT ![w].pc = "execute"]
           ELSE /\ Respond(w, 500, None)
                /\ UNCHANGED files
        /\ UNCHANGED <<posts, ratings, reactions, uuids, lock, deleted, accepted>>

\* conn.execute("INSERT INTO ..." / "DELETE FROM posts WHERE id=?"): the
\* statement takes the write lock and checks the constraints of its table.
\* With the lock taken by another connection it waits (no step) or, the busy
\* timeout over, fails: sqlite3.OperationalError, unhandled; its connection
\* holds no lock.  A violated constraint is sqlite3.IntegrityError, unhandled:
\* the statement is undone, the transaction it opened stays open, and the
\* connection, never closed, keeps the write lock.
execute_write(w) ==
    LET r == reqs[w]
    IN  /\ r.pc = "execute"
        /\ IF lock # None
           THEN /\ Respond(w, 500, None)
                /\ UNCHANGED lock
           ELSE IF \/ r.op = "create" /\ ~PostsConstraints(posts, r.post[1])
                   \/ r.op = "rate" /\ ~ScoreCheck(r.arg[1])
           THEN /\ Respond(w, 500, None)
                /\ lock' = Some(Unclosed)
           ELSE /\ reqs' = [reqs EXCEPT ![w].pc = "commit"]
                /\ lock' = Some(w)
        /\ UNCHANGED <<posts, ratings, reactions, files, uuids, deleted, accepted>>

\* the collector finalizes the Connection object an exception left behind:
\* closing it rolls its transaction back and frees the write lock
finalize ==
    /\ lock = Some(Unclosed)
    /\ lock' = None
    /\ UNCHANGED <<posts, ratings, reactions, files, uuids, reqs, deleted, accepted>>

\* conn.commit(), and for create_post and delete_post the response
commit(w) ==
    LET r == reqs[w]
        row == r.post[1]
    IN  /\ r.pc = "commit"
        /\ lock = Some(w)
        /\ lock' = None
        /\ CASE r.op = "create" ->
                  /\ posts' = posts \cup {row}
                  /\ Respond(w, 200, Some([id |-> row.id, share_token |-> row.share_token]))
                  /\ UNCHANGED <<ratings, reactions, deleted, accepted>>
             [] r.op = "rate" ->
                  /\ ratings' = InsertRating(ratings, row.id, r.arg[1])
                  /\ accepted' = [accepted EXCEPT !.ratings = InsertRating(@, row.id, r.arg[1])]
                  /\ reqs' = [reqs EXCEPT ![w].pc = "ratings"]
                  /\ UNCHANGED <<posts, reactions, deleted>>
             [] r.op = "react" ->
                  /\ reactions' = InsertReaction(reactions, row.id, r.arg[1])
                  /\ accepted' = [accepted EXCEPT !.reactions = InsertReaction(@, row.id, r.arg[1])]
                  /\ reqs' = [reqs EXCEPT ![w].pc = "ratings"]
                  /\ UNCHANGED <<posts, ratings, deleted>>
             [] r.op = "delete" ->
                  /\ posts' = DeleteFromPosts(posts, row.id)
                  /\ ratings' = DeleteRatings(ratings, row.id)
                  /\ reactions' = DeleteReactions(reactions, row.id)
                  /\ deleted' = deleted \cup {[id |-> row.id, share_token |-> row.share_token]}
                  /\ Respond(w, 200, None)
                  /\ UNCHANGED accepted
        /\ UNCHANGED <<files, uuids>>

\* post_stats: SELECT AVG(score) as avg, COUNT(*) as total FROM ratings ...
select_ratings(w) ==
    LET r == reqs[w]
    IN  /\ r.pc = "ratings"
        /\ reqs' = [reqs EXCEPT ![w].seen = Some(SelectRatingStats(ratings, r.post[1].id)),
                                ![w].pc = "reactions"]
        /\ UNCHANGED <<posts, ratings, reactions, files, uuids, lock, deleted, accepted>>

\* post_stats: SELECT emoji, COUNT(*) as count FROM reactions ..., and the response
select_reactions(w) ==
    LET r == reqs[w]
        stats == StatsOf(r.seen[1], SelectReactionCounts(reactions, r.post[1].id))
        body == CASE r.op = "get" -> serialize_post(r.post[1], stats)
                  [] r.op = "rate" -> stats
                  [] r.op = "react" -> [reactions |-> stats.reactions]
    IN  /\ r.pc = "reactions"
        /\ Respond(w, 200, Some(body))
        /\ UNCHANGED <<posts, ratings, reactions, files, uuids, lock, deleted, accepted>>

Next ==
    \/ \E w \in DOMAIN reqs, pin \in InFormPins, ct \in InContentTypes,
          fn \in InImageNames, st \in InShareTokens : create_post(w, pin, ct, fn, st)
    \/ \E w \in DOMAIN reqs, t \in InTokens : get_post(w, t)
    \/ \E w \in DOMAIN reqs, t \in InTokens, s \in InScores : rate_post(w, t, s)
    \/ \E w \in DOMAIN reqs, t \in InTokens, e \in InEmojis : react_post(w, t, e)
    \/ \E w \in DOMAIN reqs, t \in InTokens, pin \in InPins : delete_post(w, t, pin)
    \/ \E w \in DOMAIN reqs : select_post(w)
    \/ \E w \in DOMAIN reqs : path_exists(w)
    \/ \E w \in DOMAIN reqs : remove_image(w)
    \/ \E w \in DOMAIN reqs : execute_write(w)
    \/ finalize
    \/ \E w \in DOMAIN reqs : commit(w)
    \/ \E w \in DOMAIN reqs : select_ratings(w)
    \/ \E w \in DOMAIN reqs : select_reactions(w)

Spec == Init /\ [][Next]_vars
ConcSpec == ConcInit /\ [][Next]_vars

\* ==== properties ============================================================
\* the request token matches the share token or the id of an existing post
Resolves(token) == \E p \in posts : p.share_token = token \/ p.id = token
ThePost(token) == CHOOSE p \in posts : p.share_token = token \/ p.id = token
InRange(score) == score \in 1..10
TotalRatings(post_id, R) == SelectRatingStats(R, post_id).total
AllTokens == Tokens \cup ConcTokens
AllScores == Scores \cup ConcScores

\* the step is a step of executor w
Stepping(w) == reqs'[w] # reqs[w]
\* executor w is handling a request of handler op, not yet answered
Handling(w, op) == reqs[w].op = op /\ reqs[w].pc # "done"
\* the step takes a request of handler op
Taking(w, op) == reqs[w].pc = "done" /\ reqs'[w].op = op /\ Stepping(w)
\* the step sends the response of a request of handler op
Answering(w, op) == Stepping(w) /\ reqs'[w].pc = "done" /\ reqs'[w].op = op
\* the executors have answered every request they took
Quiet == \A w \in DOMAIN reqs : reqs[w].pc = "done"
\* executor w has answered a request of handler op with the status
Answered(w, op, status) ==
    reqs[w].pc = "done" /\ reqs[w].op = op /\ reqs[w].status = status

\* the tables hold at most one post per token, and ids and share tokens differ
TypeOK ==
    /\ \A p, q \in posts : (p.id = q.id \/ p.share_token = q.share_token) => p = q
    /\ \A p, q \in posts : p.id # q.share_token
    /\ \A t \in AllTokens : Cardinality(SelectPost(posts, t)) <= 1
    /\ \A r \in BagToSet(ratings) : r.score \in 1..10
    /\ lock \in {None, Some(Unclosed)} \cup {Some(w) : w \in DOMAIN reqs}
    /\ \A w \in DOMAIN reqs : lock = Some(w) <=> reqs[w].pc = "commit"

\* C1: after a successful delete_post of a post, the ratings table and the
\* reactions table hold no row with that post's id.
C1_DeleteCascades ==
    \A d \in deleted : RowsOf(ratings, d.id) = {} /\ RowsOf(reactions, d.id) = {}

\* the PIN of the request is the PIN whose digest the post stores, or the post
\* stores none
Matches(p, pin) ==
    \/ p.pin_hash = None
    \/ \E s \in PinStrings : p.pin_hash = Some(hash_pin(s)) /\ pin = Some(s)

\* C2: a delete_post request, served with no other request in between, on a
\* post without stored PIN succeeds whatever PIN comes with it; on a post
\* with a stored PIN it succeeds when it carries the PIN whose digest is
\* stored, and otherwise (another PIN, no PIN) it is answered 403 and leaves
\* the post row and the image file in place.  Success: answered 200, with the
\* row and the file gone.  (Refuted: with the write lock left to an unclosed
\* connection the DELETE fails, after the file was removed.)
C2_DeletePinGate ==
    [][\A w \in DOMAIN reqs :
          (Handling(w, "delete") /\ Stepping(w)) =>
             LET r == reqs[w]
             IN  /\ (r.pc = "select" /\ Resolves(r.token)) =>
                       LET p == ThePost(r.token)
                       IN  /\ \E s \in PinStrings : p.pin_hash \in {None, Some(hash_pin(s))}
                           /\ IF Matches(p, r.arg)
                              THEN reqs'[w].pc = "exists" /\ reqs'[w].post = Some(p)
                              ELSE /\ reqs'[w] = Done("delete", r.token, 403, None)
                                   /\ UNCHANGED <<posts, files>>
                 /\ r.pc \in {"exists", "remove", "execute"} => reqs'[w].pc # "done"
                 /\ r.pc = "commit" =>
                       /\ reqs'[w] = Done("delete", r.token, 200, None)
                       /\ r.post[1] \notin posts'
                       /\ r.post[1].image_url \notin files']_vars

\* the step takes a create_post request with this PIN in its form, and writes
\* the image file
Uploading(w, pin) ==
    /\ Taking(w, "create")
    /\ reqs'[w].pc = "execute"
    /\ \E ct \in ContentTypes, fn \in ImageNames, st \in ShareTokens :
          create_post(w, pin, ct, fn, st)

\* the step commits the row of a create_post request as the request made it
Storing(w) ==
    (Handling(w, "create") /\ reqs[w].pc = "commit" /\ Stepping(w)) =>
       /\ posts' = posts \cup {reqs[w].post[1]}
       /\ reqs[w].post[1] \notin posts
       /\ reqs'[w].pc = "done" /\ reqs'[w].status = 200

\* C3 as claimed: create_post stores the SHA-256 digest of every PIN supplied
\* in the form, the empty string included, and null only without PIN.
C3_DigestOfEverySuppliedPin ==
    [][\A w \in DOMAIN reqs :
          /\ \A pin \in FormPins :
                Uploading(w, pin) =>
                   reqs'[w].post[1].pin_hash =
                      IF pin # None THEN Some(hash_pin(pin[1])) ELSE None
          /\ Storing(w)]_vars

\* C3 amended: create_post stores the SHA-256 digest of every non-empty PIN
\* supplied, and null when no PIN or the empty PIN was supplied; the new post
\* is deletable without PIN exactly in the latter case, and no later request
\* changes the row of a post.
C3_DigestOfNonEmptyPin ==
    [][/\ \A w \in DOMAIN reqs :
             /\ \A pin \in FormPins :
                   Uploading(w, pin) =>
                      LET p == reqs'[w].post[1]
                      IN  /\ p.pin_hash = IF pin \in {None, Some("")} THEN None
                                          ELSE Some(hash_pin(pin[1]))
                          /\ PinAccepted(p, None) <=> pin \in {None, Some("")}
             /\ Storing(w)
       /\ \A p \in posts, q \in posts' : p.id = q.id => p = q]_vars

\* a post was just created with a PIN, and its row holds a digest
C3_Witness ==
    \E w \in DOMAIN reqs :
       /\ Answered(w, "create", 200)
       /\ \E p \in posts : /\ p.id = reqs[w].token
                           /\ p.pin_hash = Some(hash_pin("1234"))

\* C4: a rate_post request with a score in [1,10] and a token that resolves
\* to a post, served with no other request in between, succeeds: it is
\* answered 200, the one change it makes to the tables is one more rating of
\* that post (the ratings of every other post stay), and the total_ratings it
\* returns is the new number of ratings of the post.  (Refuted: with the
\* write lock left to an unclosed connection the INSERT fails.)
C4_RateAddsOne ==
    [][\A w \in DOMAIN reqs :
          /\ Taking(w, "rate") =>
                \A s \in Scores :
                   (InRange(s) /\ rate_post(w, reqs'[w].token, s)) =>
                      reqs'[w].pc = "select" /\ reqs'[w].arg = Some(s)
          /\ (Handling(w, "rate") /\ Stepping(w)) =>
                LET r == reqs[w]
                IN  /\ (r.pc = "select" /\ Resolves(r.token)) =>
                          reqs'[w].pc = "execute" /\ reqs'[w].post = Some(ThePost(r.token))
                    /\ r.pc = "execute" => reqs'[w].pc = "commit"
                    /\ IF r.pc = "commit"
                       THEN /\ posts' = posts /\ reactions' = reactions
                            /\ \A p \in posts :
                                  TotalRatings(p.id, ratings') =
                                     TotalRatings(p.id, ratings)
                                        + IF p.id = r.post[1].id THEN 1 ELSE 0
                       ELSE UNCHANGED <<posts, ratings, reactions>>
                    /\ (r.pc # "select" /\ reqs'[w].pc = "done") =>
                          /\ reqs'[w].status = 200
                          /\ reqs'[w].body[1].total_ratings =
                                TotalRatings(r.post[1].id, ratings)]_vars

\* C5: rate_post with a score outside [1,10] is answered 400 at once, for
\* every token, whatever other requests are being served, and leaves the three
\* tables as they are.
C5_BadScoreRejected ==
    [][\A w \in DOMAIN reqs :
          Taking(w, "rate") =>
             \A s \in AllScores :
                (~InRange(s) /\ rate_post(w, reqs'[w].token, s)) =>
                   /\ reqs'[w] = Done("rate", reqs'[w].token, 400, None)
                   /\ UNCHANGED <<posts, ratings, reactions>>]_vars

\* a rating with a bad score for an existing post was just refused
C5_Witness ==
    \E w \in DOMAIN reqs : Answered(w, "rate", 400) /\ Resolves(reqs[w].token)

\* C6 as claimed: every response to a react_post or rate_post request whose
\* token matches no post is 404, for every emoji and every score, and the
\* request writes nothing.
C6_UnknownTokenIs404 ==
    [][\A w \in DOMAIN reqs :
          /\ ((Answering(w, "rate") \/ Answering(w, "react"))
                 /\ reqs[w].pc \in {"done", "select"} /\ ~Resolves(reqs'[w].token)) =>
                reqs'[w].status = 404
          /\ (Stepping(w) /\ reqs'[w].op \in {"rate", "react"}
                          /\ reqs[w].pc \in {"done", "select"}
                          /\ ~Resolves(reqs'[w].token)) =>
                UNCHANGED <<posts, ratings, reactions>>]_vars

\* C6 amended: for a token that matches no post when the request looks it up,
\* react_post is answered 404 for every emoji, rate_post 404 for every score
\* in [1,10] and 400 for every other score; none of them writes.
C6_UnknownTokenFails ==
    [][\A w \in DOMAIN reqs :
          /\ Taking(w, "rate") =>
                \A s \in AllScores :
                   (rate_post(w, reqs'[w].token, s) /\ ~Resolves(reqs'[w].token)) =>
                      /\ IF InRange(s) THEN reqs'[w].pc = "select"
                         ELSE reqs'[w] = Done("rate", reqs'[w].token, 400, None)
                      /\ UNCHANGED <<posts, ratings, reactions>>
          /\ Taking(w, "react") =>
                /\ reqs'[w].pc = "select"
                /\ UNCHANGED <<posts, ratings, reactions>>
          /\ (Stepping(w) /\ reqs[w].pc = "select" /\ reqs[w].op \in {"rate", "react"}
                          /\ ~Resolves(reqs[w].token)) =>
                /\ reqs'[w] = Done(reqs[w].op, reqs[w].token, 404, None)
                /\ UNCHANGED <<posts, ratings, reactions>>]_vars

\* a rating and a reaction for a token that matches no post were answered
\* 404 by two threads, while a post exists
C6_Witness ==
    \E w, v \in DOMAIN reqs :
       /\ Answered(w, "rate", 404) /\ ~Resolves(reqs[w].token)
       /\ Answered(v, "react", 404) /\ ~Resolves(reqs[v].token)
       /\ posts # {}

\* tokens under which a deleted post was known
TokensOf(d) == {d.id, d.share_token}
\* tokens of a deleted post that no post created since has drawn again
DeadTokens(d) == {d.id} \cup {t \in {d.share_token} : \A p \in posts : p.share_token # t}
Lookups == {"get", "rate", "react", "delete"}

\* C7 as claimed: once a post is deleted its image file is gone, and every
\* get_post, rate_post, react_post and delete_post taken later with its share
\* token or its id is answered 404.
C7_DeletedStays404 ==
    [][/\ \A d \in deleted' : \A f \in files' : f[1] # d.id
       /\ \A w \in DOMAIN reqs :
             (Stepping(w) /\ reqs[w].pc \in {"done", "select"}
                 /\ reqs'[w].pc = "done" /\ reqs'[w].op \in Lookups
                 /\ \E d \in deleted : reqs'[w].token \in TokensOf(d)) =>
                reqs'[w].status = 404]_vars

\* C7 amended: once a post is deleted its image file is gone, and every
\* get_post, react_post, delete_post, and rate_post with a score in [1,10],
\* that looks the post up later is answered 404 (rate_post with another
\* score: 400) when called with its id, or with its share token while no
\* later post holds the same share token; whatever other requests are being
\* served.
C7_DeletedUnresolvable ==
    [][/\ \A d \in deleted' : \A f \in files' : f[1] # d.id
       /\ \A w \in DOMAIN reqs :
             (Stepping(w) /\ reqs[w].pc \in {"done", "select"}
                 /\ reqs'[w].op \in Lookups
                 /\ \E d \in deleted : reqs'[w].token \in DeadTokens(d)) =>
                IF reqs[w].pc = "select"
                THEN reqs'[w] = Done(reqs[w].op, reqs[w].token, 404, None)
                ELSE \* the request is taken: only a bad score is answered at once
                     IF reqs'[w].pc = "done"
                     THEN /\ reqs'[w].op = "rate" /\ reqs'[w].status = 400
                          /\ \A s \in AllScores :
                                rate_post(w, reqs'[w].token, s) => ~InRange(s)
                     ELSE /\ reqs'[w].pc = "select"
                          /\ reqs'[w].op = "rate" => InRange(reqs'[w].arg[1])]_vars

\* a deleted post was just looked up by its share token, in vain
C7_Witness ==
    \E w \in DOMAIN reqs :
       /\ Answered(w, "get", 404)
       /\ \E d \in deleted : reqs[w].token = d.share_token

\* what the history of accepted requests says about a post
RECURSIVE SumUpTo(_, _, _)
SumUpTo(post_id, B, v) ==
    IF v = 0 THEN 0
    ELSE v * CopiesIn([post_id |-> post_id, score |-> v], B) + SumUpTo(post_id, B, v - 1)
RECURSIVE CountUpTo(_, _, _)
CountUpTo(post_id, B, v) ==
    IF v = 0 THEN 0
    ELSE CopiesIn([post_id |-> post_id, score |-> v], B) + CountUpTo(post_id, B, v - 1)
AcceptedSum(post_id) == SumUpTo(post_id, accepted.ratings, 10)
AcceptedCount(post_id) == CountUpTo(post_id, accepted.ratings, 10)
AcceptedEmoji(post_id, e) == CopiesIn([post_id |-> post_id, emoji |-> e], accepted.reactions)

\* a tenth a is the mean sum/n rounded to one decimal: |a/10 - sum/n| <= 1/20
IsRounded(a, sum, n) ==
    LET diff == IF a * n >= 10 * sum THEN a * n - 10 * sum ELSE 10 * sum - a * n
    IN  2 * diff <= n

\* stats are the stats of the accepted ratings and reactions of the post
StatsMatchHistory(post_id, stats) ==
    LET n == AcceptedCount(post_id)
    IN  /\ stats.total_ratings = n
        /\ stats.avg_rating = None <=> n = 0
        /\ n > 0 => IsRounded(stats.avg_rating[1], AcceptedSum(post_id), n)
        /\ DOMAIN stats.reactions = {e \in Emojis : AcceptedEmoji(post_id, e) > 0}
        /\ \A e \in DOMAIN stats.reactions : stats.reactions[e] = AcceptedEmoji(post_id, e)

\* the number of ratings of one post up to which the rounding is checked
MaxRated == 20

\* C8: with requests served one after the other, the stats of every existing
\* post, and the stats get_post and rate_post return, are: total_ratings the
\* number of accepted ratings of the post, avg_rating their mean rounded to
\* one decimal (null exactly without ratings), reactions the count of accepted
\* reactions per emoji used.  The rounding is that of the mean of up to
\* MaxRated scores in [1,10].
C8_StatsOfAccepted ==
    /\ \A p \in posts : StatsMatchHistory(p.id, post_stats(p.id, ratings, reactions))
    /\ \A w \in DOMAIN reqs :
          /\ Answered(w, "get", 200) =>
                StatsMatchHistory(reqs[w].body[1].id, reqs[w].body[1].stats)
          /\ Answered(w, "rate", 200) =>
                StatsMatchHistory(ThePost(reqs[w].token).id, reqs[w].body[1])
    /\ uuids = 0 =>
          \A n \in 1..MaxRated : \A sum \in n..(10 * n) :
             IsRounded(RoundTenths(sum, n), sum, n)

\* get_post just returned a post with three ratings whose mean needs rounding,
\* and a reaction
C8_Witness ==
    \E w \in DOMAIN reqs :
       /\ Answered(w, "get", 200)
       /\ reqs[w].body[1].stats.total_ratings = 3
       /\ (10 * AcceptedSum(reqs[w].body[1].id)) % 3 # 0
       /\ DOMAIN reqs[w].body[1].stats.reactions # {}

\* C9: while no request is being served, image files and post rows correspond
\* one to one.
C9_FilesMatchRows ==
    Quiet =>
       /\ \A p \in posts : p.image_url \in files
       /\ \A f \in files : Cardinality({p \in posts : p.image_url = f}) = 1

\* rows of a table that a step added
Added(T, U) == {r \in BagToSet(U) : CopiesIn(r, U) > CopiesIn(r, T)}

\* C10: no rating row and no reaction row is committed for a post whose row
\* is no longer in the posts table.
C10_NoRowForDeletedPost ==
    [][\A r \in Added(ratings, ratings') \cup Added(reactions, reactions') :
          \E p \in posts : p.id = r.post_id]_vars

====
